---- MODULE Spec2Model ----
(***************************************************************************)
(* jobfit-ai: the four POST route handlers (cover letter, resume           *)
(* generation, resume tailoring, resume upload) as concurrent request      *)
(* processes over the shared rows of one user: the profile's               *)
(* credits_remaining, the documents table and the credit_transactions      *)
(* ledger.  One action per section of a handler between two awaits of an   *)
(* external service (identity provider, database, completion API).         *)
(***************************************************************************)
EXTENDS Integers, Sequences, FiniteSets, TLC

\* ------------------------------------------------------------- bounds
MaxReqs == 2
MaxCredits == 1
MaxLoads == 1
MaxDeletes == 1

\* ---------------------------------------------------- program constants
MinResumeChars == 200
MinUploadChars == 200

Reqs == 1..MaxReqs

\* ------------------------------------------------------------- strings
\* A header or a file name is a sequence of characters.  A free text is a
\* sequence of runs <<kind, n>>: n characters of one kind, "sp" (space or tab),
\* "nl" (\n), "cr" (\r) or "ch" (anything else).
Chars(n) == <<"ch", n>>
Spaces(n) == <<"sp", n>>
Newlines(n) == <<"nl", n>>
Returns(n) == <<"cr", n>>

IsWhite(run) == run[1] # "ch"

RECURSIVE TextLen(_)
TextLen(t) == IF t = <<>> THEN 0 ELSE Head(t)[2] + TextLen(Tail(t))

RECURSIVE TrimStart(_)
TrimStart(t) ==
    IF t = <<>> THEN <<>>
    ELSE IF IsWhite(Head(t)) THEN TrimStart(Tail(t)) ELSE t

RECURSIVE TrimEnd(_)
TrimEnd(t) ==
    IF t = <<>> THEN <<>>
    ELSE IF IsWhite(t[Len(t)]) THEN TrimEnd(SubSeq(t, 1, Len(t) - 1)) ELSE t

\* String.prototype.trim
Trim(t) == TrimEnd(TrimStart(t))

\* An optional body field: absent (undefined) or a text.
Absent == [has |-> FALSE, runs |-> <<>>]
Field(t) == [has |-> TRUE, runs |-> t]

\* JavaScript truthiness of an optional string: undefined and "" are falsy.
Truthy(f) == f.has /\ TextLen(f.runs) > 0

\* f?.trim() is truthy
TrimTruthy(f) == f.has /\ TextLen(Trim(f.runs)) > 0

StartsWith(s, p) == Len(s) >= Len(p) /\ SubSeq(s, 1, Len(p)) = p
EndsWith(s, p) == Len(s) >= Len(p) /\ SubSeq(s, Len(s) - Len(p) + 1, Len(s)) = p
Slice(s, k) == SubSeq(s, k + 1, Len(s))

\* msg.includes(word), a message being a sequence of words
Includes(msg, word) == \E i \in 1..Len(msg) : msg[i] = word

BearerPrefix == <<"B", "e", "a", "r", "e", "r", " ">>
NoToken == <<>>

\* the slice without the startsWith test
BearerTokenAnyScheme(h) == Slice(h, Len(BearerPrefix))

\* authHeader.startsWith("Bearer ") ? authHeader.slice(7) : null
\* (null and "" are both falsy in the `if (!token)` that follows)
BearerToken(h) ==
    IF StartsWith(h, BearerPrefix) THEN Slice(h, Len(BearerPrefix)) ELSE NoToken

TokenA == <<"t", "A">>
TokenX == <<"t", "X">>

\* ------------------------------------------------------------- inputs
\* req.headers.get("authorization"), <<>> when the header is absent
Headers ==
    { <<>>,
      <<"B", "a", "s", "i", "c", " ", "t", "A">>,
      BearerPrefix,
      BearerPrefix \o TokenA,
      BearerPrefix \o TokenX }

ResumeTexts ==
    { Absent,
      Field(<<Spaces(1), Chars(MinResumeChars - 1), Newlines(1)>>),
      Field(<<Chars(MinResumeChars)>>) }

JobIds == {"", "j1"}

\* process.env: the names that are set
AllEnv == {"SUPABASE_URL", "SUPABASE_ANON_KEY", "OPENAI_API_KEY"}
Envs == { AllEnv, AllEnv \ {"SUPABASE_URL"} }

\* a user id the client puts into its body: somebody else's
ForeignId == "bob"

\* no call of consume_credits yet
NoResult == [kind |-> "none", balance |-> -1, message |-> <<>>, amount |-> 0]

\* the body before the handler has read it, and one that does not parse
Unread == [kind |-> "unread"]
Invalid == [kind |-> "invalid"]

TailorBodies ==
    { Invalid,
      [kind |-> "json", jobId |-> "", resumeText |-> Field(<<Chars(MinResumeChars)>>),
       user_id |-> ForeignId] }
    \cup { [kind |-> "json", jobId |-> "j1", resumeText |-> t, user_id |-> ForeignId] :
              t \in ResumeTexts }

CoverBodies ==
    {Invalid} \cup { [kind |-> "json", jobId |-> j, user_id |-> ForeignId] : j \in JobIds }

GenerateBodies ==
    { Invalid,
      [kind |-> "json", education |-> Field(<<Spaces(2)>>), experience |-> Field(<<>>),
       projects |-> Absent, skills |-> Field(<<Newlines(1)>>), user_id |-> ForeignId],
      [kind |-> "json", education |-> Absent, experience |-> Absent,
       projects |-> Absent, skills |-> Field(<<Spaces(1), Chars(4)>>),
       user_id |-> ForeignId] }

VARIABLES
    env,        \* process.env of the server
    credits,    \* profiles.credits_remaining of the user
    documents,  \* rows of the documents table
    ledger,     \* rows of credit_transactions
    route,      \* route[r]: the route request r was sent to
    pc,         \* pc[r]: the await request r is suspended at
    header,     \* header[r]: its Authorization header
    body,       \* body[r]: its body as the handler parsed it
    userId,     \* userId[r]: the user getUser resolved, "" before
    readb,      \* readb[r]: profile.credits_remaining as read by r (-1: not read)
    creditRes,  \* creditRes[r]: what consume_credits returned to r
    delta,      \* delta[r]: by how much r's credit step lowered credits
    text,       \* text[r]: the text r got from the completion API or the file
    reply,      \* reply[r]: that text as the API or the parser handed it over
    parser,     \* parser[r]: the extractor the upload route ran on r's file
    steps,      \* steps[r]: the steps r has finished, in order
    failure,    \* failure[r]: the steps of r that failed
    status,     \* status[r]: HTTP status of the response (0: none yet)
    respKeys,   \* respKeys[r]: the fields of the response body
    respCredits, \* respCredits[r]: its creditsRemaining field (-1: none)
    session,    \* the browser's supabase session: the signed-in user, "" if none
    docs,       \* DocumentsList: the docs state
    loading,    \* DocumentsList: the loading state
    error,      \* DocumentsList: the error state
    filterType, \* DocumentsList: the filterType state
    selectedId, \* DocumentsList: the selectedId state
    lpc,        \* lpc[l]: the await the loadDocs call l is suspended at
    luser,      \* luser[l]: the user its getUser call resolved
    dpc,        \* dpc[k]: where the deleteDoc call k is, or how it ended
    did,        \* did[k]: its argument id
    dsel,       \* dsel[k]: selectedId of the render whose handler was called
    form,       \* the client form on the page, "none" when there is none
    floading,   \* the form's loading state
    fpc,        \* the await the form's submit handler is suspended at
    fmsg,       \* the form's message: its msg, error, successMsg or result state
    mode,       \* the login page's mode state
    path,       \* the location of the browser
    fields,     \* the form's inputs: "filled" when what the handler requires is there
    captured,   \* the inputs as the running handler's closure holds them
    fresult     \* what the handler's last awaited call returned

vars == <<env, credits, documents, ledger, route, pc, header, body, userId,
          readb, creditRes, delta, text, reply, parser, steps, failure, status, respKeys,
          respCredits, session, docs, loading, error, filterType, selectedId,
          lpc, luser, dpc, did, dsel, form, floading, fpc, fmsg, mode, path,
          fields, captured, fresult>>

\* the state of the browser: the session and the DocumentsList component
ui == <<session, docs, loading, error, filterType, selectedId, lpc, luser,
        dpc, did, dsel, form, floading, fpc, fmsg, mode, path, fields, captured,
        fresult>>

\* the DocumentsList component
listui == <<docs, loading, error, filterType, selectedId, lpc, luser, dpc, did, dsel>>

\* the client form
forms == <<form, floading, fpc, fmsg, mode, path, fields, captured, fresult>>

\* the deleteDoc calls
dels == <<dpc, did, dsel>>

shared == <<env, credits, documents, ledger>>

\* the loadDocs calls that can be in flight together
Loads == 1..MaxLoads

\* the deleteDoc calls that can be in flight together
Dels == 1..MaxDeletes

\* null in a column or a state
Null == "null"

\* useState([]), useState(true), useState(null), useState("all"), useState(null)
ComponentInit ==
    /\ docs = <<>>
    /\ loading = TRUE
    /\ error = Null
    /\ filterType = "all"
    /\ selectedId = Null
    /\ lpc = [l \in Loads |-> "idle"]
    /\ luser = [l \in Loads |-> ""]
    /\ dpc = [k \in Dels |-> "idle"]
    /\ did = [k \in Dels |-> Null]
    /\ dsel = [k \in Dels |-> Null]

\* the form f as its component is first rendered: useState(false) for loading,
\* useState(null) for the message, useState("signup") for the mode, empty inputs
FormState(f) ==
    /\ form = f
    /\ floading = FALSE
    /\ fpc = "idle"
    /\ fmsg = Null
    /\ mode = "signup"
    /\ path = IF f = "login" THEN "/login" ELSE "/dashboard"
    /\ fields = "blank"
    /\ captured = Null
    /\ fresult = Null

\* no request has arrived
RequestsIdle ==
    /\ route = [r \in Reqs |-> "none"]
    /\ pc = [r \in Reqs |-> "idle"]
    /\ header = [r \in Reqs |-> <<>>]
    /\ body = [r \in Reqs |-> Unread]
    /\ userId = [r \in Reqs |-> ""]
    /\ readb = [r \in Reqs |-> -1]
    /\ creditRes = [r \in Reqs |-> NoResult]
    /\ delta = [r \in Reqs |-> 0]
    /\ text = [r \in Reqs |-> <<>>]
    /\ reply = [r \in Reqs |-> <<>>]
    /\ parser = [r \in Reqs |-> ""]
    /\ steps = [r \in Reqs |-> <<>>]
    /\ failure = [r \in Reqs |-> {}]
    /\ status = [r \in Reqs |-> 0]
    /\ respKeys = [r \in Reqs |-> {}]
    /\ respCredits = [r \in Reqs |-> -1]

Init ==
    /\ env \in Envs
    /\ credits \in 0..MaxCredits
    /\ documents = {}
    /\ ledger = {}
    /\ RequestsIdle
    /\ session = ""
    /\ ComponentInit
    /\ FormState("none")

\* ----------------------------------------------------------- responses
\* creditsRemaining: newBalance, the data the rpc handed to this request
CreditsRemaining(r, keys) ==
    IF "creditsRemaining" \in keys THEN creditRes[r].balance ELSE -1

\* return NextResponse.json(bodyWithKeys, {status: st}), after the steps `done`
\* of which the steps `failed` returned an error or threw
Respond(r, st, keys, done, failed) ==
    /\ pc' = [pc EXCEPT ![r] = "done"]
    /\ failure' = [failure EXCEPT ![r] = failure[r] \cup failed]
    /\ status' = [status EXCEPT ![r] = st]
    /\ respKeys' = [respKeys EXCEPT ![r] = keys]
    /\ respCredits' = [respCredits EXCEPT ![r] = CreditsRemaining(r, keys)]
    /\ steps' = [steps EXCEPT ![r] = steps[r] \o done \o <<"response">>]

\* the handler goes on to its next await, after the steps `done`
Goto(r, next, done) ==
    /\ pc' = [pc EXCEPT ![r] = next]
    /\ steps' = [steps EXCEPT ![r] = steps[r] \o done]
    /\ UNCHANGED <<failure, status, respKeys, respCredits>>

ErrorBody == {"error"}

\* A response is delivered before any handler takes its next step: a finished
\* handler shares nothing with the others, so the order of the steps on the
\* shared rows is not restricted by this.
Delivered == \A q \in Reqs : pc[q] # "done"

\* request r of route rt is suspended at the await p
At(r, rt, p) == Delivered /\ route[r] = rt /\ pc[r] = p

\* the first idle slot takes the next request
CanArrive(r) ==
    /\ Delivered
    /\ pc[r] = "idle"
    /\ \A q \in Reqs : q < r => pc[q] # "idle"

\* a request with the Authorization header h reaches the route rt
Arrives(r, rt, h) ==
    /\ route' = [route EXCEPT ![r] = rt]
    /\ header' = [header EXCEPT ![r] = h]

\* the user a token belongs to
UserOf(tok) == IF tok = TokenA THEN "alice" ELSE ""

SupabaseEnv == {"SUPABASE_URL", "SUPABASE_ANON_KEY"} \subseteq env

\* supabase.auth.getUser(): the identity provider knows TokenA and no other
\* token, any call may fail, and a client without its URL reaches nobody
GetUserOutcomes(tok) ==
    IF tok = TokenA /\ SupabaseEnv THEN {"ok", "error"} ELSE {"error", "nouser"}

\* the test of userErr alone
GetUserRejectedErrorOnly(o) == o = "error"

\* if (userErr || !userData?.user)
GetUserRejected(o) == o = "error" \/ o = "nouser"

\* createClient of the supabase library given process.env values: with a
\* value missing it may throw or hand back a client
ClientOutcomes == IF SupabaseEnv THEN {"client"} ELSE {"client", "throws"}

\* what the completion API answers: a failure (a non-2xx status, a rejected
\* key) or a message content
CompletionTexts ==
    { <<>>, <<Spaces(2)>>, <<Newlines(1), Chars(3), Spaces(1)>> }

CompletionOutcomes ==
    IF "OPENAI_API_KEY" \in env
      THEN {[kind |-> "throws", content |-> <<>>]} \cup
           {[kind |-> "content", content |-> t] : t \in CompletionTexts}
      ELSE {[kind |-> "throws", content |-> <<>>]}

\* a row that takes its user_id from the body of the request
DocumentOfBody(r, u, j, ty, t) ==
    [id |-> r, user_id |-> body[r].user_id, job_id |-> j, type |-> ty,
     content_text |-> t]

\* a row of documents
Document(r, u, j, ty, t) ==
    [id |-> r, user_id |-> u, job_id |-> j, type |-> ty, content_text |-> t]

\* a row of credit_transactions
LedgerRow(r, u, why) == [id |-> r, user_id |-> u, delta |-> -1, reason |-> why]

\* ------------------------------------------------ tailor-resume route
\* the length test without the trim
TailorTextOkUntrimmed(b) ==
    Truthy(b.resumeText) /\ TextLen(b.resumeText.runs) >= MinResumeChars

\* resumeText is required (min ~200 chars)
TailorTextOk(b) ==
    Truthy(b.resumeText) /\ TextLen(Trim(b.resumeText.runs)) >= MinResumeChars

\* the handler up to its first call of an external service: the token check,
\* req.json(), the validation of the body, createClient
TailorReceive(r) ==
    /\ CanArrive(r)
    /\ \E h \in Headers :
        /\ Arrives(r, "tailor", h)
        /\ IF BearerToken(h) = NoToken
             THEN /\ Respond(r, 401, ErrorBody, <<"token">>, {"token"})
                  /\ UNCHANGED body
             ELSE \E b \in TailorBodies, c \in ClientOutcomes :
                  /\ body' = [body EXCEPT ![r] = b]
                  /\ IF b.kind = "invalid"
                       THEN Respond(r, 500, ErrorBody, <<"token">>, {"body"})
                     ELSE IF b.jobId = ""
                       THEN Respond(r, 400, ErrorBody, <<"token", "validate">>, {"validate"})
                     ELSE IF ~TailorTextOk(b)
                       THEN Respond(r, 400, ErrorBody, <<"token", "validate">>, {"validate"})
                     ELSE IF c = "throws"
                       THEN Respond(r, 500, ErrorBody, <<"token", "validate">>, {"client"})
                     ELSE Goto(r, "getUser", <<"token", "validate">>)
        /\ UNCHANGED <<shared, userId, readb, creditRes, delta, text, reply, parser>>
    /\ UNCHANGED ui

\* const { data: userData, error: userErr } = await supabase.auth.getUser()
TailorGetUser(r) ==
    /\ At(r, "tailor", "getUser")
    /\ \E o \in GetUserOutcomes(BearerToken(header[r])) :
        IF GetUserRejected(o)
          THEN /\ Respond(r, 401, ErrorBody, <<"getUser">>, {"getUser"})
               /\ UNCHANGED userId
          ELSE /\ userId' = [userId EXCEPT ![r] = UserOf(BearerToken(header[r]))]
               /\ Goto(r, "profile", <<"getUser">>)
    /\ UNCHANGED <<shared, route, header, body, readb, creditRes, delta, text, reply, parser>>
    /\ UNCHANGED ui

\* the test with < for <=
TailorNoCreditsStrict(b) == b < 0

\* profile.credits_remaining <= 0
TailorNoCredits(b) == b <= 0

\* select credits_remaining from profiles ... .single()
TailorProfile(r) ==
    /\ At(r, "tailor", "profile")
    /\ \E o \in {"row", "norow", "error"} :
        IF o = "error"
          THEN /\ Respond(r, 400, ErrorBody, <<"profile">>, {"profile"})
               /\ UNCHANGED readb
        ELSE IF o = "norow" \/ TailorNoCredits(credits)
          THEN /\ Respond(r, 402, ErrorBody, <<"profile">>, {"profile"})
               /\ UNCHANGED readb
        ELSE /\ readb' = [readb EXCEPT ![r] = credits]
             /\ Goto(r, "job", <<"profile">>)
    /\ UNCHANGED <<shared, route, header, body, userId, creditRes, delta, text, reply, parser>>
    /\ UNCHANGED ui

\* the job lookup answering 400, as the route's other database errors do
TailorJobBadRequest(r) ==
    /\ At(r, "tailor", "job")
    /\ \E o \in {"row", "norow", "error"} :
        IF o = "row"
          THEN Goto(r, "openai", <<"job">>)
          ELSE Respond(r, 400, ErrorBody, <<"job">>, {"job"})
    /\ UNCHANGED <<shared, route, header, body, userId, readb, creditRes, delta, text, reply, parser>>
    /\ UNCHANGED ui

\* select ... from jobs where id = jobId and user_id = userId
TailorJob(r) ==
    /\ At(r, "tailor", "job")
    /\ \E o \in {"row", "norow", "error"} :
        IF o = "row"
          THEN Goto(r, "openai", <<"job">>)
          ELSE Respond(r, 404, ErrorBody, <<"job">>, {"job"})
    /\ UNCHANGED <<shared, route, header, body, userId, readb, creditRes, delta, text, reply, parser>>
    /\ UNCHANGED ui

\* openai.chat.completions.create(...), then content?.trim() || ""
TailorCompletion(r) ==
    /\ At(r, "tailor", "openai")
    /\ \E o \in CompletionOutcomes :
        IF o.kind = "throws"
          THEN /\ Respond(r, 500, ErrorBody, <<"completion">>, {"completion"})
               /\ UNCHANGED <<text, reply, parser>>
        ELSE IF Trim(o.content) = <<>>
          THEN /\ Respond(r, 500, ErrorBody, <<"completion">>, {"completion"})
               /\ reply' = [reply EXCEPT ![r] = o.content]
               /\ UNCHANGED <<text, parser>>
        ELSE /\ text' = [text EXCEPT ![r] = Trim(o.content)]
             /\ reply' = [reply EXCEPT ![r] = o.content]
             /\ Goto(r, "insert", <<"completion">>)
    /\ UNCHANGED <<shared, route, header, body, userId, readb, creditRes, delta>>
    /\ UNCHANGED <<parser, ui>>

\* the row written although the insert reports an error
TailorInsertKeepsRow(r) ==
    /\ At(r, "tailor", "insert")
    /\ \E o \in {"row", "error"} :
        /\ documents' = documents \cup
              {Document(r, userId[r], body[r].jobId, "tailored_resume", text[r])}
        /\ IF o = "row"
             THEN Goto(r, "update", <<"insert">>)
             ELSE Respond(r, 400, ErrorBody, <<"insert">>, {"insert"})
    /\ UNCHANGED <<env, credits, ledger, route, header, body, userId, readb,
                   creditRes, delta, text, reply, parser>>
    /\ UNCHANGED ui

\* insert into documents ... .select().single()
TailorInsert(r) ==
    /\ At(r, "tailor", "insert")
    /\ \E o \in {"row", "error"} :
        IF o = "row"
          THEN /\ documents' = documents \cup
                    {Document(r, userId[r], body[r].jobId, "tailored_resume", text[r])}
               /\ Goto(r, "update", <<"insert">>)
          ELSE /\ Respond(r, 400, ErrorBody, <<"insert">>, {"insert"})
               /\ UNCHANGED documents
    /\ UNCHANGED <<env, credits, ledger, route, header, body, userId, readb,
                   creditRes, delta, text, reply, parser>>
    /\ UNCHANGED ui

\* a decrement of the stored balance in place of the write of the read one
TailorNewCreditsInPlace(r) == credits - 1

\* update({ credits_remaining: profile.credits_remaining - 1 })
TailorNewCredits(r) == readb[r] - 1

\* update profiles set credits_remaining = ... where user_id = userId
TailorUpdate(r) ==
    /\ At(r, "tailor", "update")
    /\ \E o \in {"ok", "error"} :
        IF o = "ok"
          THEN /\ credits' = TailorNewCredits(r)
               /\ delta' = [delta EXCEPT ![r] = credits - TailorNewCredits(r)]
               /\ Goto(r, "ledger", <<"credit">>)
          ELSE /\ Respond(r, 200, {"document"}, <<"credit">>, {"credit"})
               /\ UNCHANGED <<credits, delta>>
    /\ UNCHANGED <<env, documents, ledger, route, header, body, userId, readb,
                   creditRes, text, reply, parser>>
    /\ UNCHANGED ui

\* await supabase.from("credit_transactions").insert(...): the result is dropped
TailorLedger(r) ==
    /\ At(r, "tailor", "ledger")
    /\ \E o \in {"ok", "error"} :
        /\ ledger' = IF o = "ok"
                       THEN ledger \cup {LedgerRow(r, userId[r], "tailor_resume")}
                       ELSE ledger
        /\ Respond(r, 200, {"document"}, <<"ledger">>, IF o = "ok" THEN {} ELSE {"ledger"})
    /\ UNCHANGED <<env, credits, documents, route, header, body, userId, readb,
                   creditRes, delta, text, reply, parser>>
    /\ UNCHANGED ui

\* --------------------------------------------------- external services
\* requireEnv(name) returns (TRUE) or throws (FALSE)
RequireEnv(name) == name \in env

InsufficientMsg == <<"ERROR:", "INSUFFICIENT_CREDITS">>
OtherMsgs == { <<>>, <<"insufficient", "credits">> }

\* The stored procedure consume_credits(p_user_id, p_amount, ...) on a balance
\* b: it decrements when the balance suffices and signals insufficient credits
\* otherwise; like any call it can also fail for another reason.
ConsumeCredits(b, amount) ==
    (IF b >= amount
       THEN {[kind |-> "ok", balance |-> b - amount, message |-> <<>>]}
       ELSE {[kind |-> "error", balance |-> b, message |-> InsufficientMsg]})
    \cup {[kind |-> "error", balance |-> b, message |-> m] : m \in OtherMsgs}

\* the message compared, not searched
CreditErrorStatusExact(msg) == IF msg = <<"INSUFFICIENT_CREDITS">> THEN 402 ELSE 500

\* if (creditErr) { msg.includes("INSUFFICIENT_CREDITS") ? 402 : 500 }
CreditErrorStatus(msg) == IF Includes(msg, "INSUFFICIENT_CREDITS") THEN 402 ELSE 500

\* the content tested without the trim
CallOpenAIReturnsUntrimmed(o) ==
    "OPENAI_API_KEY" \in env /\ o.kind = "content" /\ o.content # <<>>

\* const content = json?.choices?.[0]?.message?.content?.trim();
\* callOpenAI throws (FALSE) unless the key is set, the status is 2xx and the
\* trimmed content is not empty
CallOpenAIReturns(o) ==
    RequireEnv("OPENAI_API_KEY") /\ o.kind = "content" /\ Trim(o.content) # <<>>

\* ------------------------------------------------- cover-letter route
\* the letter alone
CoverFullTextBare(letterBody) == letterBody

\* the letter wrapped in the header lines, the salutation and the signature
CoverFullText(letterBody) ==
    <<Chars(5), Newlines(2), Chars(2), Newlines(2)>> \o letterBody \o
    <<Newlines(2), Chars(2), Newlines(1)>>

\* the handler up to its first call of an external service: requireEnv, the
\* token check, createClient, req.json(), the jobId check
CoverReceive(r) ==
    /\ CanArrive(r)
    /\ \E h \in Headers :
        /\ Arrives(r, "cover", h)
        /\ IF ~(RequireEnv("SUPABASE_URL") /\ RequireEnv("SUPABASE_ANON_KEY"))
             THEN /\ Respond(r, 500, ErrorBody, <<>>, {"env"})
                  /\ UNCHANGED body
           ELSE IF BearerToken(h) = NoToken
             THEN /\ Respond(r, 401, ErrorBody, <<"token">>, {"token"})
                  /\ UNCHANGED body
           ELSE \E b \in CoverBodies :
                  /\ body' = [body EXCEPT ![r] = b]
                  /\ IF b.kind = "invalid"
                       THEN Respond(r, 500, ErrorBody, <<"token">>, {"body"})
                     ELSE IF b.jobId = ""
                       THEN Respond(r, 400, ErrorBody, <<"token", "validate">>, {"validate"})
                     ELSE Goto(r, "getUser", <<"token", "validate">>)
        /\ UNCHANGED <<shared, userId, readb, creditRes, delta, text, reply, parser>>
    /\ UNCHANGED ui

CoverGetUser(r) ==
    /\ At(r, "cover", "getUser")
    /\ \E o \in GetUserOutcomes(BearerToken(header[r])) :
        IF GetUserRejected(o)
          THEN /\ Respond(r, 401, ErrorBody, <<"getUser">>, {"getUser"})
               /\ UNCHANGED userId
          ELSE /\ userId' = [userId EXCEPT ![r] = UserOf(BearerToken(header[r]))]
               /\ Goto(r, "job", <<"getUser">>)
    /\ UNCHANGED <<shared, route, header, body, readb, creditRes, delta, text, reply, parser>>
    /\ UNCHANGED ui

\* the job lookup followed by the completion call, the rpc left out
CoverJobThenCompletion(r) ==
    /\ At(r, "cover", "job")
    /\ \E o \in {"row", "norow", "error"} :
        IF o = "row"
          THEN Goto(r, "openai", <<"job">>)
          ELSE Respond(r, 404, ErrorBody, <<"job">>, {"job"})
    /\ UNCHANGED <<shared, route, header, body, userId, readb, creditRes, delta, text, reply, parser>>
    /\ UNCHANGED ui

\* select ... from jobs where id = body.jobId
CoverJob(r) ==
    /\ At(r, "cover", "job")
    /\ \E o \in {"row", "norow", "error"} :
        IF o = "row"
          THEN Goto(r, "credit", <<"job">>)
          ELSE Respond(r, 404, ErrorBody, <<"job">>, {"job"})
    /\ UNCHANGED <<shared, route, header, body, userId, readb, creditRes, delta, text, reply, parser>>
    /\ UNCHANGED ui

\* p_amount: 1
CreditAmount == 1

\* { data: newBalance, error: creditErr } of a call made with p_amount
RpcResult(o) ==
    [kind |-> o.kind, balance |-> o.balance, message |-> o.message,
     amount |-> CreditAmount]

\* the rpc without the creditErr branch
ConsumeStepUnchecked(r, why, next) ==
    \E o \in ConsumeCredits(credits, CreditAmount) :
        /\ creditRes' = [creditRes EXCEPT ![r] = RpcResult(o)]
        /\ Goto(r, next, <<"credit">>)
        /\ IF o.kind = "ok"
             THEN /\ credits' = o.balance
                  /\ ledger' = ledger \cup {LedgerRow(r, userId[r], why)}
                  /\ delta' = [delta EXCEPT ![r] = credits - o.balance]
             ELSE UNCHANGED <<credits, ledger, delta>>

\* supabase.rpc("consume_credits", { p_amount: 1, ... }) and the creditErr branch
ConsumeStep(r, why, next) ==
    \E o \in ConsumeCredits(credits, CreditAmount) :
        IF o.kind = "ok"
          THEN /\ credits' = o.balance
               /\ ledger' = ledger \cup {LedgerRow(r, userId[r], why)}
               /\ creditRes' = [creditRes EXCEPT ![r] = RpcResult(o)]
               /\ delta' = [delta EXCEPT ![r] = credits - o.balance]
               /\ Goto(r, next, <<"credit">>)
          ELSE /\ creditRes' = [creditRes EXCEPT ![r] = RpcResult(o)]
               /\ Respond(r, CreditErrorStatus(o.message), ErrorBody, <<"credit">>, {"credit"})
               /\ UNCHANGED <<credits, ledger, delta>>

CoverCredit(r) ==
    /\ At(r, "cover", "credit")
    /\ ConsumeStep(r, "cover_letter_generation", "openai")
    /\ UNCHANGED <<env, documents, route, header, body, userId, readb, text, reply, parser>>
    /\ UNCHANGED ui

\* callOpenAI called a second time when the first call threw
CompletionStepRetryOnce(r) ==
    \E o \in CompletionOutcomes :
        IF CallOpenAIReturns(o)
          THEN /\ text' = [text EXCEPT ![r] = Trim(o.content)]
               /\ reply' = [reply EXCEPT ![r] = o.content]
               /\ Goto(r, "insert", <<"completion">>)
        ELSE IF \A i \in 1..Len(steps[r]) : steps[r][i] # "completion"
          THEN /\ Goto(r, "openai", <<"completion">>)
               /\ UNCHANGED <<text, reply, parser>>
        ELSE /\ Respond(r, 500, ErrorBody, <<"completion">>, {"completion"})
             /\ UNCHANGED <<text, reply, parser>>

\* const letterBody = await callOpenAI(prompt), a throw ending in the catch
CompletionStep(r) ==
    \E o \in CompletionOutcomes :
        IF CallOpenAIReturns(o)
          THEN /\ text' = [text EXCEPT ![r] = Trim(o.content)]
               /\ reply' = [reply EXCEPT ![r] = o.content]
               /\ Goto(r, "insert", <<"completion">>)
          ELSE /\ Respond(r, 500, ErrorBody, <<"completion">>, {"completion"})
               /\ reply' = [reply EXCEPT ![r] = o.content]
               /\ UNCHANGED <<text, parser>>

\* the completion call with the credit handed back when it fails
CoverCompletionRefund(r) ==
    /\ At(r, "cover", "openai")
    /\ CompletionStep(r)
    /\ credits' = IF pc'[r] = "done" THEN credits + creditRes[r].amount ELSE credits
    /\ UNCHANGED <<env, documents, ledger, route, header, body, userId, readb,
                   creditRes, delta>>
    /\ UNCHANGED <<parser, ui>>

CoverCompletion(r) ==
    /\ At(r, "cover", "openai")
    /\ CompletionStep(r)
    /\ UNCHANGED <<shared, route, header, body, userId, readb, creditRes, delta>>
    /\ UNCHANGED <<parser, ui>>

\* the insert followed by a response of the document alone
InsertStepDocumentOnly(r, doc) ==
    \E o \in {"row", "norow", "error"} :
        IF o = "row"
          THEN /\ documents' = documents \cup {doc}
               /\ Respond(r, 200, {"document"}, <<"insert">>, {})
          ELSE /\ Respond(r, 500, ErrorBody, <<"insert">>, {"insert"})
               /\ UNCHANGED documents

\* the insert followed by if (docErr) alone
InsertStepErrorOnly(r, doc) ==
    \E o \in {"row", "norow", "error"} :
        IF o = "error"
          THEN /\ Respond(r, 500, ErrorBody, <<"insert">>, {"insert"})
               /\ UNCHANGED documents
          ELSE /\ documents' = IF o = "row" THEN documents \cup {doc} ELSE documents
               /\ Respond(r, 200, {"document", "creditsRemaining"}, <<"insert">>,
                          IF o = "row" THEN {} ELSE {"insert"})

\* insert into documents ... .select().single(), then if (docErr || !doc)
InsertStep(r, doc) ==
    \E o \in {"row", "norow", "error"} :
        IF o = "row"
          THEN /\ documents' = documents \cup {doc}
               /\ Respond(r, 200, {"document", "creditsRemaining"}, <<"insert">>, {})
          ELSE /\ Respond(r, 500, ErrorBody, <<"insert">>, {"insert"})
               /\ UNCHANGED documents

CoverInsert(r) ==
    /\ At(r, "cover", "insert")
    /\ InsertStep(r, Document(r, userId[r], body[r].jobId, "cover_letter",
                              CoverFullText(text[r])))
    /\ UNCHANGED <<env, credits, ledger, route, header, body, userId, readb,
                   creditRes, delta, text, reply, parser>>
    /\ UNCHANGED ui

\* ---------------------------------------------- resume/generate route
\* the four fields tested without the trim
HasContentUntrimmed(b) ==
    \/ Truthy(b.education)
    \/ Truthy(b.experience)
    \/ Truthy(b.projects)
    \/ Truthy(b.skills)

\* (education?.trim() || experience?.trim() || projects?.trim() || skills?.trim()) ?? ""
HasContent(b) ==
    \/ TrimTruthy(b.education)
    \/ TrimTruthy(b.experience)
    \/ TrimTruthy(b.projects)
    \/ TrimTruthy(b.skills)

\* the handler up to its first call of an external service: requireEnv, the
\* token check, createClient, req.json()
GenerateReceive(r) ==
    /\ CanArrive(r)
    /\ \E h \in Headers :
        /\ Arrives(r, "generate", h)
        /\ IF ~(RequireEnv("SUPABASE_URL") /\ RequireEnv("SUPABASE_ANON_KEY"))
             THEN /\ Respond(r, 500, ErrorBody, <<>>, {"env"})
                  /\ UNCHANGED body
           ELSE IF BearerToken(h) = NoToken
             THEN /\ Respond(r, 401, ErrorBody, <<"token">>, {"token"})
                  /\ UNCHANGED body
           ELSE \E b \in GenerateBodies :
                  /\ body' = [body EXCEPT ![r] = b]
                  /\ IF b.kind = "invalid"
                       THEN Respond(r, 500, ErrorBody, <<"token">>, {"body"})
                       ELSE Goto(r, "getUser", <<"token">>)
        /\ UNCHANGED <<shared, userId, readb, creditRes, delta, text, reply, parser>>
    /\ UNCHANGED ui

\* getUser, then the hasContent check
GenerateGetUser(r) ==
    /\ At(r, "generate", "getUser")
    /\ \E o \in GetUserOutcomes(BearerToken(header[r])) :
        IF GetUserRejected(o)
          THEN /\ Respond(r, 401, ErrorBody, <<"getUser">>, {"getUser"})
               /\ UNCHANGED userId
        ELSE /\ userId' = [userId EXCEPT ![r] = UserOf(BearerToken(header[r]))]
             /\ IF HasContent(body[r])
                  THEN Goto(r, "credit", <<"getUser", "validate">>)
                  ELSE Respond(r, 400, ErrorBody, <<"getUser", "validate">>, {"validate"})
    /\ UNCHANGED <<shared, route, header, body, readb, creditRes, delta, text, reply, parser>>
    /\ UNCHANGED ui

GenerateCredit(r) ==
    /\ At(r, "generate", "credit")
    /\ ConsumeStep(r, "resume_generation", "openai")
    /\ UNCHANGED <<env, documents, route, header, body, userId, readb, text, reply, parser>>
    /\ UNCHANGED ui

GenerateCompletion(r) ==
    /\ At(r, "generate", "openai")
    /\ CompletionStep(r)
    /\ UNCHANGED <<shared, route, header, body, userId, readb, creditRes, delta>>
    /\ UNCHANGED <<parser, ui>>

GenerateInsert(r) ==
    /\ At(r, "generate", "insert")
    /\ InsertStep(r, Document(r, userId[r], "", "resume", text[r]))
    /\ UNCHANGED <<env, credits, ledger, route, header, body, userId, readb,
                   creditRes, delta, text, reply, parser>>
    /\ UNCHANGED ui

\* ----------------------------------------------- resume-upload route
\* adjacent runs of one kind joined, empty runs dropped
RECURSIVE Merge(_)
Merge(t) ==
    IF t = <<>> THEN <<>>
    ELSE IF Head(t)[2] = 0 THEN Merge(Tail(t))
    ELSE LET rest == Merge(Tail(t)) IN
         IF rest # <<>> /\ rest[1][1] = Head(t)[1]
           THEN <<<<Head(t)[1], Head(t)[2] + rest[1][2]>>>> \o Tail(rest)
           ELSE <<Head(t)>> \o rest

NextIsNewline(t, i) == i < Len(t) /\ t[i + 1][1] = "nl"

\* .replaceAll("\r\n", "\n"): the \r right before a \n goes
CrLfToLf(t) ==
    Merge([i \in 1..Len(t) |->
        IF t[i][1] = "cr" /\ NextIsNewline(t, i) THEN <<"cr", t[i][2] - 1>> ELSE t[i]])

\* .replaceAll("\r", "\n")
CrToLf(t) ==
    Merge([i \in 1..Len(t) |-> IF t[i][1] = "cr" THEN <<"nl", t[i][2]>> ELSE t[i]])

\* .replace(/[ \t]+\n/g, "\n")
DropTrailingSpaces(t) ==
    Merge([i \in 1..Len(t) |->
        IF t[i][1] = "sp" /\ NextIsNewline(t, i) THEN <<"sp", 0>> ELSE t[i]])

\* .replace(/\n{3,}/g, "\n\n")
CollapseGaps(t) ==
    [i \in 1..Len(t) |-> IF t[i][1] = "nl" /\ t[i][2] >= 3 THEN <<"nl", 2>> ELSE t[i]]

normalizeText(raw) ==
    Trim(CollapseGaps(DropTrailingSpaces(CrToLf(CrLfToLf(Merge(raw))))))

Lower(c) ==
    CASE c = "P" -> "p" [] c = "D" -> "d" [] c = "F" -> "f" [] c = "O" -> "o"
      [] c = "C" -> "c" [] c = "X" -> "x" [] c = "T" -> "t" [] OTHER -> c

\* filename.toLowerCase()
ToLowerCase(name) == [i \in 1..Len(name) |-> Lower(name[i])]

PdfMime == <<"application", "pdf">>
DocxMime == <<"application", "vnd.openxmlformats-officedocument.wordprocessingml.document">>

\* the chain with the DOCX test in front of the PDF test
ExtractorDocxFirst(file) ==
    IF file.mime = DocxMime
       \/ EndsWith(ToLowerCase(file.name), <<".", "d", "o", "c", "x">>)
      THEN "docx"
    ELSE IF file.mime = PdfMime
            \/ EndsWith(ToLowerCase(file.name), <<".", "p", "d", "f">>)
      THEN "pdf"
    ELSE IF (file.mime # <<>> /\ file.mime[1] = "text")
            \/ EndsWith(ToLowerCase(file.name), <<".", "t", "x", "t">>)
      THEN "txt"
    ELSE "none"

\* the branch of the if / else if chain a file takes
Extractor(file) ==
    IF file.mime = PdfMime \/ EndsWith(ToLowerCase(file.name), <<".", "p", "d", "f">>)
      THEN "pdf"
    ELSE IF file.mime = DocxMime
            \/ EndsWith(ToLowerCase(file.name), <<".", "d", "o", "c", "x">>)
      THEN "docx"
    ELSE IF (file.mime # <<>> /\ file.mime[1] = "text")
            \/ EndsWith(ToLowerCase(file.name), <<".", "t", "x", "t">>)
      THEN "txt"
    ELSE "none"

File(n, m, sz) ==
    [kind |-> "form", hasFile |-> TRUE, name |-> n, mime |-> m, size |-> sz,
     user_id |-> ForeignId]

\* req.formData(): not a multipart body, no file field, or a file
UploadBodies ==
    { Invalid,
      [kind |-> "form", hasFile |-> FALSE, name |-> <<>>, mime |-> <<>>, size |-> 0,
       user_id |-> ForeignId],
      File(<<"a", ".", "p", "d", "f">>, PdfMime, 0),
      File(<<"a", ".", "P", "D", "F">>, DocxMime, 9),
      File(<<"a">>, DocxMime, 9),
      File(<<"a", ".", "t", "x", "t">>, <<"text", "plain">>, 9),
      File(<<"a", ".", "b", "i", "n">>, <<"application", "octet-stream">>, 9) }

\* what a parser or the decoder makes of the bytes
ExtractedTexts ==
    { <<Chars(5)>>,
      <<Chars(MinUploadChars - 100), Newlines(5), Chars(97)>>,
      <<Chars(MinUploadChars - 100), Returns(1), Newlines(1), Chars(99), Spaces(3)>> }

\* pdfParse and mammoth can throw, buf.toString("utf8") cannot
ExtractOutcomes(kind) ==
    {[kind |-> "text", raw |-> t] : t \in ExtractedTexts} \cup
    (IF kind = "txt" THEN {} ELSE {[kind |-> "throws", raw |-> <<>>]})

\* the handler up to its first call of an external service: makeSupabase and
\* the token check
UploadReceive(r) ==
    /\ CanArrive(r)
    /\ \E h \in Headers, c \in ClientOutcomes :
        /\ Arrives(r, "upload", h)
        /\ IF c = "throws"
             THEN Respond(r, 500, ErrorBody, <<>>, {"client"})
           ELSE IF BearerToken(h) = NoToken
             THEN Respond(r, 401, ErrorBody, <<"token">>, {"token"})
           ELSE Goto(r, "getUser", <<"token">>)
        /\ UNCHANGED <<shared, body, userId, readb, creditRes, delta, text, reply, parser>>
    /\ UNCHANGED ui

\* the guard with < for ===
EmptyBufferNegative(file) == file.size < 0

\* if (!buf || buf.length === 0)
EmptyBuffer(file) == file.size = 0

\* supabase.auth.getUser(token), then req.formData() and the checks of the file
UploadGetUser(r) ==
    /\ At(r, "upload", "getUser")
    /\ \E o \in GetUserOutcomes(BearerToken(header[r])) :
        IF GetUserRejected(o)
          THEN /\ Respond(r, 401, ErrorBody, <<"getUser">>, {"getUser"})
               /\ UNCHANGED <<userId, body>>
        ELSE /\ userId' = [userId EXCEPT ![r] = UserOf(BearerToken(header[r]))]
             /\ \E b \in UploadBodies :
                  /\ body' = [body EXCEPT ![r] = b]
                  /\ IF b.kind = "invalid"
                       THEN Respond(r, 500, ErrorBody, <<"getUser">>, {"body"})
                     ELSE IF ~b.hasFile
                       THEN Respond(r, 400, ErrorBody, <<"getUser", "validate">>, {"validate"})
                     ELSE IF EmptyBuffer(b)
                       THEN Respond(r, 400, ErrorBody, <<"getUser", "validate">>, {"validate"})
                     ELSE IF Extractor(b) = "none"
                       THEN Respond(r, 400, ErrorBody, <<"getUser", "validate">>, {"validate"})
                     ELSE Goto(r, "parse", <<"getUser", "validate">>)
    /\ UNCHANGED <<shared, route, header, readb, creditRes, delta, text, reply, parser>>
    /\ UNCHANGED ui

\* the length test with <= for <
TooShortOrEqual(t) == TextLen(t) <= MinUploadChars

\* if (content_text.length < 200)
TooShort(t) == TextLen(t) < MinUploadChars

\* pdfParse(buf), mammoth.extractRawText or buf.toString, then normalizeText
\* and the length check
UploadParse(r) ==
    /\ At(r, "upload", "parse")
    /\ \E o \in ExtractOutcomes(Extractor(body[r])) :
        IF o.kind = "throws"
          THEN /\ Respond(r, 500, ErrorBody, <<"parse">>, {"parse"})
               /\ UNCHANGED <<text, reply>>
        ELSE IF TooShort(normalizeText(o.raw))
          THEN /\ Respond(r, 400, ErrorBody, <<"parse">>, {"parse"})
               /\ reply' = [reply EXCEPT ![r] = o.raw]
               /\ UNCHANGED text
        ELSE /\ text' = [text EXCEPT ![r] = normalizeText(o.raw)]
             /\ reply' = [reply EXCEPT ![r] = o.raw]
             /\ Goto(r, "insert", <<"parse">>)
    /\ parser' = [parser EXCEPT ![r] = Extractor(body[r])]
    /\ UNCHANGED <<shared, route, header, body, userId, readb, creditRes, delta>>
    /\ UNCHANGED ui

\* insert into documents ... .select().single(), then if (insErr)
UploadInsert(r) ==
    /\ At(r, "upload", "insert")
    /\ \E o \in {"row", "error"} :
        IF o = "row"
          THEN /\ documents' = documents \cup
                    {Document(r, userId[r], "", "resume", text[r])}
               /\ Respond(r, 200, {"document"}, <<"insert">>, {})
          ELSE /\ Respond(r, 500, ErrorBody, <<"insert">>, {"insert"})
               /\ UNCHANGED documents
    /\ UNCHANGED <<env, credits, ledger, route, header, body, userId, readb,
                   creditRes, delta, text, reply, parser>>
    /\ UNCHANGED ui

\* ------------------------------------------------------ the handlers
\* The handler has returned: its frame (the request, its locals, the response)
\* is gone.  Only the rows it wrote stay.
Close(r) ==
    /\ pc[r] = "done"
    /\ pc' = [pc EXCEPT ![r] = "closed"]
    /\ route' = [route EXCEPT ![r] = "none"]
    /\ header' = [header EXCEPT ![r] = <<>>]
    /\ body' = [body EXCEPT ![r] = Unread]
    /\ userId' = [userId EXCEPT ![r] = ""]
    /\ readb' = [readb EXCEPT ![r] = -1]
    /\ creditRes' = [creditRes EXCEPT ![r] = NoResult]
    /\ delta' = [delta EXCEPT ![r] = 0]
    /\ text' = [text EXCEPT ![r] = <<>>]
    /\ reply' = [reply EXCEPT ![r] = <<>>]
    /\ parser' = [parser EXCEPT ![r] = ""]
    /\ steps' = [steps EXCEPT ![r] = <<>>]
    /\ failure' = [failure EXCEPT ![r] = {}]
    /\ status' = [status EXCEPT ![r] = 0]
    /\ respKeys' = [respKeys EXCEPT ![r] = {}]
    /\ respCredits' = [respCredits EXCEPT ![r] = -1]
    /\ UNCHANGED shared
    /\ UNCHANGED ui

Next ==
    \E r \in Reqs :
        \/ TailorReceive(r)
        \/ TailorGetUser(r)
        \/ TailorProfile(r)
        \/ TailorJob(r)
        \/ TailorCompletion(r)
        \/ TailorInsert(r)
        \/ TailorUpdate(r)
        \/ TailorLedger(r)
        \/ CoverReceive(r)
        \/ CoverGetUser(r)
        \/ CoverJob(r)
        \/ CoverCredit(r)
        \/ CoverCompletion(r)
        \/ CoverInsert(r)
        \/ GenerateReceive(r)
        \/ GenerateGetUser(r)
        \/ GenerateCredit(r)
        \/ GenerateCompletion(r)
        \/ GenerateInsert(r)
        \/ UploadReceive(r)
        \/ UploadGetUser(r)
        \/ UploadParse(r)
        \/ UploadInsert(r)
        \/ Close(r)

Spec == Init /\ [][Next]_vars

\* ------------------------------------------- DocumentsList component
\* a row of documents as the list reads it; user_id is the owner of the row
\* in the table, which the select does not fetch
Row(id, user, ty, at) == [id |-> id, user_id |-> user, type |-> ty, created_at |-> at]

Users == {"alice", "bob"}

\* the rows the table can hold
AllRows ==
    { Row("d1", "alice", "cover_letter", 1),
      Row("d2", "alice", Null, 2),
      Row("d3", "bob", "resume", 3) }

\* .order("created_at", { ascending: false })
RECURSIVE OrderDesc(_)
OrderDesc(rows) ==
    IF rows = {} THEN <<>>
    ELSE LET first == CHOOSE x \in rows :
                          \A y \in rows : y.created_at <= x.created_at
         IN <<first>> \o OrderDesc(rows \ {first})

\* The row-level-security policy of the documents table, which is not part of
\* the application: a select sees the rows of the user whose session token
\* the client sends.
Visible(row) == row.user_id = session

\* .from("documents").select(...).eq("user_id", user.id).order(...)
SelectDocs(user) ==
    OrderDesc({row \in documents : Visible(row) /\ row.user_id = user})

\* d.type without the default
TypeOfRaw(d) == d.type

\* (d.type ?? "other")
TypeOf(d) == IF d.type = Null THEN "other" ELSE d.type

\* docs.filter((d) => (d.type ?? "other") === filterType), "all" giving docs
RECURSIVE Filter(_, _)
Filter(list, t) ==
    IF list = <<>> THEN <<>>
    ELSE (IF TypeOf(Head(list)) = t THEN <<Head(list)>> ELSE <<>>)
         \o Filter(Tail(list), t)

filtered == IF filterType = "all" THEN docs ELSE Filter(docs, filterType)

\* the type names in the order Array.prototype.sort puts them
TypeNames == <<"cover_letter", "other", "resume", "tailored_resume">>

\* Array.from(s).sort() of the set s of type names
RECURSIVE Sorted(_, _)
Sorted(s, names) ==
    IF names = <<>> THEN <<>>
    ELSE (IF Head(names) \in s THEN <<Head(names)>> ELSE <<>>)
         \o Sorted(s, Tail(names))

\* ["all", ...Array.from(s).sort()]
availableTypes ==
    <<"all">> \o Sorted({TypeOf(docs[i]) : i \in 1..Len(docs)}, TypeNames)

server == <<env, credits, ledger, route, pc, header, body, userId, readb,
            creditRes, delta, text, reply, parser, steps, failure, status, respKeys,
            respCredits>>

\* the page with the component mounted: some rows stored, someone signed in
\* or nobody
ListInit ==
    /\ env = AllEnv
    /\ credits = 0
    /\ ledger = {}
    /\ RequestsIdle
    /\ documents \in SUBSET AllRows
    /\ session \in Users \cup {""}
    /\ ComponentInit
    /\ FormState("none")

\* how a deleteDoc call ends: the user cancelled, the delete failed, or the
\* document was removed
Ended == {"cancelled", "failed", "removed"}

\* A deleteDoc call that has ended returns before the next event is handled:
\* the handler runs to its end once its await has resolved.
Returned == \A k \in Dels : dpc[k] \notin Ended

\* loadDocs() up to its first await, called by the mount effect or by Refresh
LoadDocs(l) ==
    /\ Returned
    /\ lpc[l] = "idle"
    /\ \A k \in Loads : k < l => lpc[k] # "idle"
    /\ loading' = TRUE
    /\ error' = Null
    /\ lpc' = [lpc EXCEPT ![l] = "getUser"]
    /\ UNCHANGED <<server, documents, session, docs, filterType, selectedId, luser>>
    /\ UNCHANGED dels
    /\ UNCHANGED forms

\* supabase.auth.getUser() of the browser client: the user of the session,
\* nobody, or an error
ListGetUserOutcomes ==
    {"error"} \cup (IF session = "" THEN {"nouser"} ELSE {"user"})

\* the getUser call returns: userErr, !user, or on to the select
LoadGetUser(l) ==
    /\ Returned
    /\ lpc[l] = "getUser"
    /\ \E o \in ListGetUserOutcomes :
        IF o = "error"
          THEN /\ error' = "failed"
               /\ loading' = FALSE
               /\ lpc' = [lpc EXCEPT ![l] = "idle"]
               /\ UNCHANGED luser
        ELSE IF o = "nouser"
          THEN /\ error' = "Not logged in"
               /\ loading' = FALSE
               /\ lpc' = [lpc EXCEPT ![l] = "idle"]
               /\ UNCHANGED luser
        ELSE /\ luser' = [luser EXCEPT ![l] = session]
             /\ lpc' = [lpc EXCEPT ![l] = "select"]
             /\ UNCHANGED <<error, loading>>
    /\ UNCHANGED <<server, documents, session, docs, filterType, selectedId>>
    /\ UNCHANGED dels
    /\ UNCHANGED forms

\* the select returns: docsErr, or setDocs(data ?? [])
LoadSelect(l) ==
    /\ Returned
    /\ lpc[l] = "select"
    /\ \E o \in {"rows", "nodata", "error"} :
        IF o = "error"
          THEN /\ error' = "failed"
               /\ UNCHANGED docs
          ELSE /\ docs' = IF o = "rows" THEN SelectDocs(luser[l]) ELSE <<>>
               /\ UNCHANGED error
    /\ loading' = FALSE
    /\ lpc' = [lpc EXCEPT ![l] = "idle"]
    /\ luser' = [luser EXCEPT ![l] = ""]
    /\ UNCHANGED <<server, documents, session, filterType, selectedId>>
    /\ UNCHANGED dels
    /\ UNCHANGED forms

\* onChange of the select: setFilterType(e.target.value), one of the options
SetFilterType ==
    /\ Returned
    /\ \E i \in 1..Len(availableTypes) : filterType' = availableTypes[i]
    /\ filterType' # filterType
    /\ UNCHANGED <<server, documents, session, docs, loading, error, selectedId,
                   lpc, luser>>
    /\ UNCHANGED dels
    /\ UNCHANGED forms

\* the session ends, or another user signs in, in this browser
SessionChanges ==
    /\ Returned
    /\ session' \in (Users \cup {""}) \ {session}
    /\ UNCHANGED <<server, documents, docs, loading, error, filterType,
                   selectedId, lpc, luser>>
    /\ UNCHANGED dels
    /\ UNCHANGED forms

\* a route stores one more document
RowStored ==
    /\ Returned
    /\ \E row \in AllRows \ documents : documents' = documents \cup {row}
    /\ UNCHANGED <<server, session, docs, loading, error, filterType,
                   selectedId, lpc, luser>>
    /\ UNCHANGED dels
    /\ UNCHANGED forms

\* the null of selectedDoc: a document without an id
NoDoc == [id |-> Null]

\* docs.find((d) => d.id === selectedId) ?? null, looked up in the table
selectedDocStored ==
    IF \E row \in documents : row.id = selectedId
      THEN CHOOSE row \in documents : row.id = selectedId
      ELSE NoDoc

\* docs.find((d) => d.id === selectedId) ?? null
selectedDoc ==
    IF \E i \in 1..Len(docs) : docs[i].id = selectedId
      THEN docs[CHOOSE i \in 1..Len(docs) :
                  /\ docs[i].id = selectedId
                  /\ \A j \in 1..(i - 1) : docs[j].id # selectedId]
      ELSE NoDoc

\* prev.filter((d) => d.id !== id)
RECURSIVE Without(_, _)
Without(list, id) ==
    IF list = <<>> THEN <<>>
    ELSE (IF Head(list).id # id THEN <<Head(list)>> ELSE <<>>)
         \o Without(Tail(list), id)

\* onClick of a row of the filtered list: setSelectedId(d.id)
Select ==
    /\ Returned
    /\ \E i \in 1..Len(filtered) : selectedId' = filtered[i].id
    /\ selectedId' # selectedId
    /\ UNCHANGED <<server, documents, session, docs, loading, error, filterType,
                   lpc, luser, dels>>
    /\ UNCHANGED forms

\* onClick of Delete in the viewer: deleteDoc(selectedDoc.id) up to its await,
\* confirm() answering ok or not
DeleteDoc(k) ==
    /\ Returned
    /\ dpc[k] = "idle"
    /\ \A j \in Dels : j < k => dpc[j] # "idle"
    /\ selectedDoc.id # Null
    /\ \E ok \in BOOLEAN :
        IF ok
          THEN /\ dpc' = [dpc EXCEPT ![k] = "delete"]
               /\ did' = [did EXCEPT ![k] = selectedDoc.id]
               /\ dsel' = [dsel EXCEPT ![k] = selectedId]
          ELSE /\ dpc' = [dpc EXCEPT ![k] = "cancelled"]
               /\ UNCHANGED <<did, dsel>>
    /\ UNCHANGED <<server, documents, session, docs, loading, error, filterType,
                   selectedId, lpc, luser>>
    /\ UNCHANGED forms

\* the local removal made whatever the delete returned
DeleteReturnsOptimistic(k) ==
    /\ dpc[k] = "delete"
    /\ \E o \in {"ok", "error"} :
        /\ documents' = IF o = "ok"
                           THEN {row \in documents : ~(row.id = did[k] /\ Visible(row))}
                           ELSE documents
        /\ dpc' = [dpc EXCEPT ![k] = IF o = "ok" THEN "removed" ELSE "failed"]
    /\ docs' = Without(docs, did[k])
    /\ selectedId' = IF dsel[k] = did[k] THEN Null ELSE selectedId
    /\ did' = [did EXCEPT ![k] = Null]
    /\ dsel' = [dsel EXCEPT ![k] = Null]
    /\ UNCHANGED <<server, session, loading, error, filterType, lpc, luser>>
    /\ UNCHANGED forms

\* the delete returns: alert(error.message), or the local removal and, with
\* the selectedId the handler was created with, setSelectedId(null)
DeleteReturns(k) ==
    /\ dpc[k] = "delete"
    /\ \E o \in {"ok", "error"} :
        IF o = "error"
          THEN /\ dpc' = [dpc EXCEPT ![k] = "failed"]
               /\ UNCHANGED <<documents, docs, selectedId>>
          ELSE /\ documents' = {row \in documents : ~(row.id = did[k] /\ Visible(row))}
               /\ docs' = Without(docs, did[k])
               /\ selectedId' = IF dsel[k] = did[k] THEN Null ELSE selectedId
               /\ dpc' = [dpc EXCEPT ![k] = "removed"]
    /\ did' = [did EXCEPT ![k] = Null]
    /\ dsel' = [dsel EXCEPT ![k] = Null]
    /\ UNCHANGED <<server, session, loading, error, filterType, lpc, luser>>
    /\ UNCHANGED forms

\* the call has returned
DeleteEnds(k) ==
    /\ dpc[k] \in Ended
    /\ dpc' = [dpc EXCEPT ![k] = "idle"]
    /\ UNCHANGED <<server, documents, session, docs, loading, error, filterType,
                   selectedId, lpc, luser, did, dsel>>
    /\ UNCHANGED forms

ListNext ==
    \/ \E l \in Loads : LoadDocs(l)
    \/ \E l \in Loads : LoadGetUser(l)
    \/ \E l \in Loads : LoadSelect(l)
    \/ SetFilterType
    \/ SessionChanges
    \/ RowStored
    \/ Select
    \/ \E k \in Dels : DeleteDoc(k)
    \/ \E k \in Dels : DeleteReturns(k)
    \/ \E k \in Dels : DeleteEnds(k)

ListSpec == ListInit /\ [][ListNext]_vars

\* --------------------------------------------------- the client forms
\* login/page.tsx, ResumeUpload, CoverLetterGenerator, ResumeGenerator,
\* ResumeTailor and JobCreator: one form on the page, its submit handler one
\* action per section between two awaits.
Forms == {"login", "upload", "cover", "generator", "tailor", "job"}

\* the forms whose handler checks its inputs before its first await
SyncValidated == {"upload", "cover", "tailor", "job"}

\* the validation branch of the cover-letter form without its setLoading(false)
LoadingAfterInvalidKept(f) == f = "cover"

\* the loading state after the handler returned from its validation branch:
\* the cover-letter form has set it and resets it, the others had not set it
LoadingAfterInvalid(f) == FALSE

\* the first awaited call of the handler
FirstAwait(f) ==
    CASE f = "login" -> IF mode = "signup" THEN "signUp" ELSE "signIn"
      [] f = "job" -> "getUser"
      [] OTHER -> "getSession"

\* the page with one of the forms on it
FormInit ==
    /\ env = AllEnv
    /\ credits = 0
    /\ documents = {}
    /\ ledger = {}
    /\ RequestsIdle
    /\ session \in Users \cup {""}
    /\ ComponentInit
    /\ \E f \in Forms : FormState(f)

\* onChange of the inputs: what the handler requires is typed in, or removed
EditFields ==
    /\ form \in Forms
    /\ form = "login" => path = "/login"
    /\ fields' = IF fields = "blank" THEN "filled" ELSE "blank"
    /\ UNCHANGED <<server, documents, session, listui, form, floading, fpc, fmsg,
                   mode, path, captured, fresult>>

\* onClick of the link under the login form: setMode of the other mode
ToggleMode ==
    /\ form = "login" /\ path = "/login"
    /\ mode' = IF mode = "signup" THEN "login" ELSE "signup"
    /\ UNCHANGED <<server, documents, session, listui, form, floading, fpc, fmsg,
                   path, fields, captured, fresult>>

\* The submit handler up to its first await.  The button is disabled while
\* loading, and the browser does not submit the login form with a required
\* input empty.
Submit ==
    /\ form \in Forms
    /\ fpc = "idle" /\ ~floading
    /\ form = "login" => path = "/login" /\ fields = "filled"
    /\ IF form \in SyncValidated /\ fields = "blank"
         THEN /\ fmsg' = "validation"
              /\ floading' = LoadingAfterInvalid(form)
              /\ UNCHANGED <<fpc, captured>>
         ELSE /\ fmsg' = Null
              /\ floading' = TRUE
              /\ fpc' = FirstAwait(form)
              /\ captured' = fields
    /\ fresult' = Null
    /\ UNCHANGED <<server, documents, session, listui, form, mode, path, fields>>

\* the handler ends: the catch block sets the message m, finally sets loading
Finish(m) ==
    /\ fmsg' = m
    /\ floading' = FALSE
    /\ fpc' = "idle"
    /\ captured' = Null

\* supabase.auth.getSession() of the browser client
GetSessionOutcomes == {"error"} \cup (IF session = "" THEN {"notoken"} ELSE {"token"})

\* getSession returns: without a token the handler throws; the resume
\* generator then checks its inputs and throws when all four are blank
GetSessionReturns ==
    /\ fpc = "getSession"
    /\ \E o \in GetSessionOutcomes :
        /\ fresult' = o
        /\ IF o # "token"
             THEN Finish("error")
           ELSE IF form = "generator" /\ captured = "blank"
             THEN Finish("validation")
           ELSE /\ fpc' = "fetch"
                /\ UNCHANGED <<fmsg, floading, captured>>
    /\ UNCHANGED <<server, documents, session, listui, form, mode, path, fields>>

\* fetch of the route returns: a 2xx response, another one, or a throw (the
\* network, a body that is not JSON, a response without a document)
FetchReturns ==
    /\ fpc = "fetch"
    /\ \E o \in {"ok", "notok", "throws"} :
        /\ fresult' = o
        /\ IF o = "ok"
             THEN /\ Finish("ok")
                  /\ fields' = IF form = "upload" THEN "blank" ELSE fields
             ELSE /\ Finish("error")
                  /\ UNCHANGED fields
    /\ UNCHANGED <<server, documents, session, listui, form, mode, path>>

\* supabase.auth.getUser() of the job form returns
JobGetUserReturns ==
    /\ fpc = "getUser"
    /\ \E o \in {"error"} \cup (IF session = "" THEN {"nouser"} ELSE {"user"}) :
        /\ fresult' = o
        /\ IF o = "user"
             THEN /\ fpc' = "insert"
                  /\ UNCHANGED <<fmsg, floading, captured>>
             ELSE Finish("error")
    /\ UNCHANGED <<server, documents, session, listui, form, mode, path, fields>>

\* the insert into jobs returns: the inputs are cleared on success
JobInsertReturns ==
    /\ fpc = "insert"
    /\ \E o \in {"ok", "error"} :
        /\ fresult' = o
        /\ IF o = "ok"
             THEN Finish("ok") /\ fields' = "blank"
             ELSE Finish("error") /\ UNCHANGED fields
    /\ UNCHANGED <<server, documents, session, listui, form, mode, path>>

\* what signUp and signInWithPassword can return: an error, a user without a
\* session (signUp with email confirmation on), a session; or they throw
AuthOutcomes(call) ==
    {"error", "session", "throws"} \cup
    (IF call = "signUp" THEN {"nosession"} ELSE {})

\* router.push("/dashboard") after any return of signUp but an error
SignUpReturnsAlwaysPush ==
    /\ form = "login" /\ fpc = "signUp"
    /\ \E o \in AuthOutcomes("signUp") :
        /\ fresult' = o
        /\ IF o = "error"
             THEN Finish("error") /\ UNCHANGED <<mode, path, session>>
           ELSE IF o = "throws"
             THEN Finish(fmsg) /\ UNCHANGED <<mode, path, session>>
           ELSE /\ Finish(fmsg)
                /\ path' = "/dashboard"
                /\ session' = IF o = "session" THEN "alice" ELSE session
                /\ UNCHANGED mode
    /\ UNCHANGED <<server, documents, listui, form, fields>>

\* supabase.auth.signUp returns
SignUpReturns ==
    /\ form = "login" /\ fpc = "signUp"
    /\ \E o \in AuthOutcomes("signUp") :
        /\ fresult' = o
        /\ IF o = "error"
             THEN Finish("error") /\ UNCHANGED <<mode, path, session>>
           ELSE IF o = "throws"
             THEN Finish(fmsg) /\ UNCHANGED <<mode, path, session>>
           ELSE IF o = "nosession"
             THEN /\ Finish("confirm")
                  /\ mode' = "login"
                  /\ UNCHANGED <<path, session>>
           ELSE /\ Finish(fmsg)
                /\ path' = "/dashboard"
                /\ session' = "alice"
                /\ UNCHANGED mode
    /\ UNCHANGED <<server, documents, listui, form, fields>>

\* supabase.auth.signInWithPassword returns
SignInReturns ==
    /\ form = "login" /\ fpc = "signIn"
    /\ \E o \in AuthOutcomes("signIn") :
        /\ fresult' = o
        /\ IF o = "error"
             THEN Finish("error") /\ UNCHANGED <<path, session>>
           ELSE IF o = "throws"
             THEN Finish(fmsg) /\ UNCHANGED <<path, session>>
           ELSE /\ Finish(fmsg)
                /\ path' = "/dashboard"
                /\ session' = "alice"
    /\ UNCHANGED <<server, documents, listui, form, mode, fields>>

FormNext ==
    \/ EditFields
    \/ ToggleMode
    \/ Submit
    \/ GetSessionReturns
    \/ FetchReturns
    \/ JobGetUserReturns
    \/ JobInsertReturns
    \/ SignUpReturns
    \/ SignInReturns
    \/ SessionChanges

FormSpec == FormInit /\ [][FormNext]_vars

\* ------------------------------------------------------------- claims
Done(r) == pc[r] = "done"

\* request r has been through the step
Did(r, step) == \E i \in 1..Len(steps[r]) : steps[r][i] = step

\* the rows request r inserted into documents
DocsOf(r) == {d \in documents : d.id = r}

\* the header is not "Bearer " followed by a non-empty token
NoBearer(h) ==
    ~(Len(h) > Len(BearerPrefix) /\ SubSeq(h, 1, Len(BearerPrefix)) = BearerPrefix)

C2_BalanceNotNegative == credits >= 0

\* a tailoring request read 1, a cover-letter request consumed that credit,
\* and the tailoring request then wrote 0
C2_Witness ==
    /\ credits = 0
    /\ \E row \in ledger : row.reason = "cover_letter_generation"
    /\ \E r \in Reqs :
        /\ Done(r) /\ route[r] = "tailor" /\ status[r] = 200
        /\ readb[r] = 1 /\ Did(r, "ledger")

\* C3: the tailoring route writes the balance it read minus one, after the
\* document is stored, whatever the balance has become in the meantime.
C3_ReadThenWrite ==
    [][\A r \in Reqs :
          route[r] = "tailor" /\ pc[r] = "update" /\ pc'[r] = "ledger" =>
              /\ credits' = readb[r] - 1
              /\ DocsOf(r) # {}]_vars

\* the lost decrement: two tailoring requests and nothing else, two documents,
\* and the second write found the balance already at the value it wrote
C3_Witness ==
    /\ Cardinality(documents) = 2
    /\ \A d \in documents : d.type = "tailored_resume"
    /\ \A row \in ledger : row.reason = "tailor_resume"
    /\ \E r \in Reqs :
        /\ Done(r) /\ route[r] = "tailor" /\ status[r] = 200 /\ Did(r, "ledger")
        /\ readb[r] > 0 /\ credits = readb[r] - 1 /\ delta[r] = 0

Charging == {"cover", "generate", "tailor"}

C5_CreditError ==
    \A r \in Reqs :
        route[r] \in {"cover", "generate"} =>
            /\ Cardinality({i \in 1..Len(steps[r]) : steps[r][i] = "credit"}) <= 1
            /\ creditRes[r].kind # "none" =>
                   Did(r, "credit") /\ creditRes[r].amount = 1
            /\ creditRes[r].kind = "error" =>
                   /\ Done(r)
                   /\ ~Did(r, "completion") /\ ~Did(r, "insert") /\ DocsOf(r) = {}
                   /\ delta[r] = 0
                   /\ respKeys[r] = {"error"}
                   /\ status[r] =
                        IF \E i \in 1..Len(creditRes[r].message) :
                              creditRes[r].message[i] = "INSUFFICIENT_CREDITS"
                          THEN 402 ELSE 500

C5_Witness ==
    \E r \in Reqs :
        /\ Done(r) /\ route[r] = "cover" /\ status[r] = 402
        /\ creditRes[r].kind = "error" /\ creditRes[r].message = InsufficientMsg

\* C6: a tailoring request with a token and a jobId whose resumeText is missing
\* or shorter than 200 characters once trimmed is answered 400 before the
\* identity provider, the database or the completion API is called.
C6_ShortResumeText ==
    \A r \in Reqs :
        /\ route[r] = "tailor" /\ body[r].kind = "json" /\ body[r].jobId # ""
        /\ \/ ~body[r].resumeText.has
           \/ TextLen(Trim(body[r].resumeText.runs)) < MinResumeChars
        => /\ Done(r) /\ status[r] = 400 /\ respKeys[r] = {"error"}
           /\ steps[r] = <<"token", "validate", "response">>
           /\ userId[r] = "" /\ readb[r] = -1 /\ DocsOf(r) = {}

\* 201 characters of which 199 are left by the trim
C6_Witness ==
    \E r \in Reqs :
        /\ Done(r) /\ route[r] = "tailor" /\ status[r] = 400
        /\ body[r].kind = "json" /\ body[r].jobId = "j1"
        /\ body[r].resumeText.has
        /\ TextLen(body[r].resumeText.runs) > MinResumeChars

\* C7: an authenticated upload of a file of zero bytes is answered 400 before
\* any parser or decoder runs, and no document is inserted.
C7_EmptyFile ==
    \A r \in Reqs :
        route[r] = "upload" /\ body[r].kind = "form" /\ body[r].hasFile
        /\ body[r].size = 0
        => /\ Done(r) /\ status[r] = 400 /\ respKeys[r] = {"error"}
           /\ ~Did(r, "parse") /\ ~Did(r, "insert") /\ DocsOf(r) = {}

C7_Witness ==
    \E r \in Reqs :
        /\ Done(r) /\ route[r] = "upload" /\ userId[r] = "alice"
        /\ body[r].kind = "form" /\ body[r].hasFile /\ body[r].size = 0
        /\ status[r] = 400

\* C8 as stated: in every route a failed step ends in a non-2xx response with
\* the body {error}.
C8_Original ==
    \A r \in Reqs :
        Done(r) /\ failure[r] # {} =>
            status[r] >= 400 /\ respKeys[r] = {"error"}

\* the failures the tailoring route goes on after: the profile update and
\* the ledger insert
Ignored(r) == IF route[r] = "tailor" THEN {"credit", "ledger"} ELSE {}

\* C8 as amended: a failed step ends in a non-2xx response with the body
\* {error} and no step is run twice, except that the tailoring route answers
\* 200 with the document when its profile update or its ledger insert failed.
C8_FailuresSurfaced ==
    \A r \in Reqs :
        /\ \A i, j \in 1..Len(steps[r]) : steps[r][i] = steps[r][j] => i = j
        /\ Done(r) =>
            /\ failure[r] \ Ignored(r) # {} =>
                   status[r] >= 400 /\ respKeys[r] = {"error"}
            /\ failure[r] # {} /\ failure[r] \subseteq Ignored(r) =>
                   status[r] = 200 /\ respKeys[r] = {"document"}
            /\ status[r] = 200 \/ (status[r] >= 400 /\ respKeys[r] = {"error"})

C8_Witness ==
    \E r \in Reqs :
        /\ Done(r) /\ route[r] = "cover" /\ failure[r] = {"insert"}
        /\ status[r] = 500 /\ respKeys[r] = {"error"} /\ delta[r] = 1

RejectedHeader == BearerPrefix \o TokenX

\* C9 as stated: a request whose token the identity provider rejects is
\* answered 401 whatever its body.
C9_Original ==
    \A r \in Reqs : Done(r) /\ header[r] = RejectedHeader => status[r] = 401

\* C9 as amended: a request whose getUser call fails is answered 401, and a
\* request with a token the identity provider rejects changes no credit, calls
\* no completion and inserts no document; it reaches getUser, and so the 401,
\* only when its body passed what the route checks first (the upload route
\* checks nothing first), and is answered 400 or 500 by that check otherwise.
C9_RejectedToken ==
    \A r \in Reqs :
        /\ "getUser" \in failure[r] =>
               /\ Done(r) /\ status[r] = 401 /\ respKeys[r] = {"error"}
               /\ steps[r][Len(steps[r]) - 1] = "getUser"
        /\ "getUser" \in failure[r] \/ header[r] = RejectedHeader =>
               /\ delta[r] = 0 /\ creditRes[r] = NoResult /\ readb[r] = -1
               /\ ~Did(r, "completion") /\ ~Did(r, "insert") /\ DocsOf(r) = {}
        /\ header[r] = RejectedHeader /\ Done(r) =>
               \/ status[r] = 401 /\ Did(r, "getUser")
               \/ /\ status[r] \in {400, 500} /\ ~Did(r, "getUser")
                  /\ failure[r] \subseteq {"env", "client", "body", "validate"}
                  /\ route[r] = "upload" => ~SupabaseEnv

C9_Witness ==
    \E r \in Reqs :
        /\ Done(r) /\ route[r] = "generate" /\ header[r] = RejectedHeader
        /\ body[r].kind = "json" /\ ~HasContent(body[r])
        /\ status[r] = 401

\* step a comes before step b in what request r has done
Before(r, a, b) ==
    \A i, j \in 1..Len(steps[r]) : steps[r][i] = a /\ steps[r][j] = b => i < j

\* C10 as stated: the steps of a request come in the order token validation,
\* credit decrement, completion call, document insert, response.
C10_Original ==
    \A r \in Reqs :
        /\ Before(r, "token", "getUser") /\ Before(r, "getUser", "credit")
        /\ Before(r, "credit", "completion") /\ Before(r, "completion", "insert")
        /\ Before(r, "insert", "response")

\* the awaited steps of each route in the order of its source
StepOrder(rt) ==
    CASE rt = "cover" ->
           <<"token", "validate", "getUser", "job", "credit", "completion", "insert">>
      [] rt = "generate" ->
           <<"token", "getUser", "validate", "credit", "completion", "insert">>
      [] rt = "tailor" ->
           <<"token", "validate", "getUser", "profile", "job", "completion", "insert",
             "credit", "ledger">>
      [] rt = "upload" -> <<"token", "getUser", "validate", "parse", "insert">>
      [] OTHER -> <<>>

IsPrefix(s, t) == Len(s) <= Len(t) /\ SubSeq(t, 1, Len(s)) = s

\* C10 as amended: the cover-letter and resume-generation routes run token
\* validation, credit decrement, completion call, document insert and response
\* in that order; the tailoring route reads the balance after token validation
\* and writes the decremented balance after the document insert; the upload
\* route has neither credit nor completion step.  Each step starts when the one
\* before it has finished, and the response is the last one.
C10_StepOrder ==
    \A r \in Reqs :
        LET n == Len(steps[r]) IN
        IF Done(r)
          THEN /\ n >= 1 /\ steps[r][n] = "response"
               /\ IsPrefix(SubSeq(steps[r], 1, n - 1), StepOrder(route[r]))
          ELSE IsPrefix(steps[r], StepOrder(route[r]))

C10_Witness ==
    \E r \in Reqs :
        /\ Done(r) /\ route[r] = "tailor"
        /\ steps[r] = StepOrder("tailor") \o <<"response">>

\* C11 as stated: a 200 response of the resume-generation, cover-letter and
\* resume-tailoring routes has both a document and a creditsRemaining field,
\* and every other response has an error field only.
C11_Original ==
    \A r \in Reqs :
        Done(r) /\ route[r] \in Charging =>
            IF status[r] = 200
              THEN respKeys[r] = {"document", "creditsRemaining"}
              ELSE respKeys[r] = {"error"}

\* C11 as amended: a 200 response of the resume-generation and cover-letter
\* routes has a document and a creditsRemaining field, the latter being the
\* value the request's consume_credits call returned; a 200 response of the
\* resume-tailoring route has a document field only; every other response
\* of the three routes has an error field only.
C11_ResponseFields ==
    \A r \in Reqs :
        Done(r) /\ route[r] \in Charging =>
            IF status[r] = 200
              THEN IF route[r] = "tailor"
                     THEN respKeys[r] = {"document"} /\ respCredits[r] = -1
                     ELSE /\ respKeys[r] = {"document", "creditsRemaining"}
                          /\ creditRes[r].kind = "ok"
                          /\ respCredits[r] = creditRes[r].balance
              ELSE respKeys[r] = {"error"} /\ respCredits[r] = -1

C11_Witness ==
    \E r \in Reqs :
        /\ Done(r) /\ route[r] = "cover" /\ status[r] = 200
        /\ respKeys[r] = {"document", "creditsRemaining"}
        /\ respCredits[r] = 0 /\ credits = 0

\* the steps that are a call of the database: a select, an insert, an update
\* or an rpc
DbSteps == {"profile", "job", "credit", "ledger", "insert"}

\* how many of the steps request r has finished are in the set S
Calls(r, S) == Cardinality({i \in 1..Len(steps[r]) : steps[r][i] \in S})

\* C12 as stated: a request makes exactly one call of the database and at most
\* one call of the completion API.
C12_Original ==
    \A r \in Reqs :
        Done(r) => Calls(r, DbSteps) = 1 /\ Calls(r, {"completion"}) <= 1

\* the database calls of a request answered 200, per route
DbCallsOnSuccess(r) ==
    CASE route[r] = "tailor" -> IF "credit" \in failure[r] THEN {4} ELSE {5}
      [] route[r] = "cover" -> {3}
      [] route[r] = "generate" -> {2}
      [] route[r] = "upload" -> {1}
      [] OTHER -> {}

\* C12 as amended: a request makes at most one call of the identity provider,
\* at most one call of the completion API and from none to five calls of the
\* database, one after the other and none of them twice; a request answered
\* 200 has made one database call in the upload route, two in the
\* resume-generation route, three in the cover-letter route and four or five
\* in the resume-tailoring route.
C12_OutboundCalls ==
    \A r \in Reqs :
        /\ Calls(r, {"getUser"}) <= 1
        /\ Calls(r, {"completion"}) <= 1
        /\ \A c \in DbSteps : Calls(r, {c}) <= 1
        /\ Done(r) /\ status[r] = 200 =>
               /\ Calls(r, DbSteps) \in DbCallsOnSuccess(r)
               /\ Calls(r, {"getUser"}) = 1
               /\ route[r] # "upload" <=> Calls(r, {"completion"}) = 1
        /\ failure[r] \ Ignored(r) # {} => Done(r)

C12_Witness ==
    \E r \in Reqs :
        /\ Done(r) /\ route[r] = "tailor" /\ status[r] = 200
        /\ Calls(r, DbSteps) = 5 /\ Calls(r, {"completion"}) = 1

\* C13 as stated: the content_text of a document stored by the cover-letter,
\* resume-generation or resume-tailoring route is the text the completion API
\* returned, unchanged.
C13_Original ==
    \A r \in Reqs :
        route[r] \in Charging =>
            \A d \in DocsOf(r) : d.content_text = reply[r]

\* the text t lies inside the text s, with something before and after it
StrictlyInside(t, s) ==
    \E i \in 2..Len(s) :
        i + Len(t) - 1 < Len(s) /\ SubSeq(s, i, i + Len(t) - 1) = t

\* C13 as amended: the content_text of a document stored by the
\* resume-generation or resume-tailoring route is the text the completion API
\* returned with its leading and trailing white space removed; that of a
\* document stored by the cover-letter route is that trimmed text between a
\* header and a signature the route adds; the trimmed text is never empty.
C13_StoredText ==
    \A r \in Reqs :
        route[r] \in Charging =>
            \A d \in DocsOf(r) :
                /\ Trim(reply[r]) # <<>>
                /\ route[r] \in {"generate", "tailor"} =>
                       d.content_text = Trim(reply[r])
                /\ route[r] = "cover" =>
                       StrictlyInside(Trim(reply[r]), d.content_text)

C13_Witness ==
    \E r \in Reqs :
        /\ Done(r) /\ route[r] = "cover" /\ status[r] = 200
        /\ DocsOf(r) # {} /\ reply[r] # Trim(reply[r])

\* the call l of loadDocs returns in this step
LoadReturns(l) == lpc[l] # "idle" /\ lpc'[l] = "idle"

\* C14: when a call of loadDocs has returned, the list holds only rows owned by
\* the user who is signed in; with nobody signed in the select is not issued
\* and the error is "Not logged in".
C14_OnlyOwnRows ==
    [][\A l \in Loads :
          LoadReturns(l) =>
              /\ \A i \in 1..Len(docs') : docs'[i].user_id = session'
              /\ lpc[l] = "getUser" /\ error' = "Not logged in" => docs' = docs]_vars

\* the file has the mime type m or a name ending, in any letter case, in ext
IsOfType(file, m, ext) == file.mime = m \/ EndsWith(ToLowerCase(file.name), ext)

IsPdf(file) == IsOfType(file, PdfMime, <<".", "p", "d", "f">>)
IsDocx(file) == IsOfType(file, DocxMime, <<".", "d", "o", "c", "x">>)
IsTxt(file) ==
    \/ file.mime # <<>> /\ file.mime[1] = "text"
    \/ EndsWith(ToLowerCase(file.name), <<".", "t", "x", "t">>)

\* request r uploaded a file that is not empty
NonEmptyFile(r) ==
    route[r] = "upload" /\ body[r].kind = "form" /\ body[r].hasFile /\ body[r].size > 0

\* C15: the upload route runs the PDF parser on a PDF (by mime type or by
\* name), else the DOCX parser on a DOCX, else the decoder on a text file; a
\* file that is not empty and is none of the three is answered 400 with no
\* parser run and no document stored; a 200 response has the one field
\* document.
C15_ExtractorOrder ==
    \A r \in Reqs :
        route[r] = "upload" =>
            /\ parser[r] # "" =>
                   /\ NonEmptyFile(r)
                   /\ parser[r] = "pdf" <=> IsPdf(body[r])
                   /\ parser[r] = "docx" <=> ~IsPdf(body[r]) /\ IsDocx(body[r])
                   /\ parser[r] = "txt" <=>
                          ~IsPdf(body[r]) /\ ~IsDocx(body[r]) /\ IsTxt(body[r])
            /\ Did(r, "parse") <=> parser[r] # ""
            /\ NonEmptyFile(r) /\ ~IsPdf(body[r]) /\ ~IsDocx(body[r]) /\ ~IsTxt(body[r]) =>
                   /\ Done(r) /\ status[r] = 400 /\ respKeys[r] = {"error"}
                   /\ parser[r] = "" /\ DocsOf(r) = {}
            /\ Done(r) /\ status[r] = 200 =>
                   respKeys[r] = {"document"} /\ DocsOf(r) # {}

\* a file named .PDF with the DOCX mime type went to the PDF parser
C15_Witness ==
    \E r \in Reqs :
        /\ Done(r) /\ route[r] = "upload" /\ status[r] = 200
        /\ parser[r] = "pdf" /\ body[r].mime = DocxMime

Blank(f) == ~f.has \/ \A i \in 1..Len(f.runs) : IsWhite(f.runs[i])

AllBlank(b) ==
    Blank(b.education) /\ Blank(b.experience) /\ Blank(b.projects) /\ Blank(b.skills)

\* C17: an authenticated resume-generation request whose education,
\* experience, projects and skills are all absent or blank is answered 400
\* with no call of consume_credits and no credit consumed; one with a
\* non-blank field among the four is not answered 400 and goes on to
\* consume_credits.
C17_GenerateValidation ==
    \A r \in Reqs :
        route[r] = "generate" /\ body[r].kind = "json" /\ userId[r] # "" =>
            IF AllBlank(body[r])
              THEN /\ Done(r) /\ status[r] = 400 /\ respKeys[r] = {"error"}
                   /\ ~Did(r, "credit") /\ creditRes[r] = NoResult
                   /\ delta[r] = 0 /\ DocsOf(r) = {}
              ELSE /\ status[r] # 400
                   /\ pc[r] = "credit" \/ Did(r, "credit")

C17_Witness ==
    \E r \in Reqs :
        /\ Done(r) /\ route[r] = "generate" /\ status[r] = 400
        /\ userId[r] = "alice" /\ body[r].kind = "json"
        /\ body[r].education.has /\ credits = 1

\* request r has consumed no credit, called no completion, stored no document
NoEffect(r) ==
    /\ delta[r] = 0 /\ creditRes[r] = NoResult /\ ~Did(r, "credit")
    /\ ~Did(r, "completion") /\ ~Did(r, "insert") /\ DocsOf(r) = {}

\* C18: in the cover-letter and resume-tailoring routes a request whose body
\* has no jobId is answered 400, and a request whose job lookup returns an
\* error or no row is answered 404; neither consumes a credit, calls the
\* completion API or stores a document.
C18_JobRequired ==
    \A r \in Reqs :
        route[r] \in {"cover", "tailor"} =>
            /\ body[r].kind = "json" /\ body[r].jobId = "" =>
                   /\ Done(r) /\ status[r] = 400 /\ respKeys[r] = {"error"}
                   /\ ~Did(r, "job") /\ NoEffect(r)
            /\ "job" \in failure[r] =>
                   /\ Done(r) /\ status[r] = 404 /\ respKeys[r] = {"error"}
                   /\ NoEffect(r)
            /\ status[r] = 404 => "job" \in failure[r]

\* the balance was read, the job was not found, the balance is still 1
C18_Witness ==
    \E r \in Reqs :
        /\ Done(r) /\ route[r] = "tailor" /\ status[r] = 404
        /\ readb[r] = 1 /\ credits = 1

\* the number of characters of what request r's parser returned, normalized
NormalizedLen(r) == TextLen(normalizeText(reply[r]))

\* C19: in the upload route a text that has fewer than 200 characters once
\* normalized is answered 400 and no document is stored; a document is
\* stored only for a normalized text of at least 200 characters, and holds
\* that text.
C19_ShortUpload ==
    \A r \in Reqs :
        route[r] = "upload" =>
            /\ Did(r, "parse") /\ status[r] # 500 /\ NormalizedLen(r) < 200 =>
                   /\ Done(r) /\ status[r] = 400 /\ respKeys[r] = {"error"}
                   /\ ~Did(r, "insert") /\ DocsOf(r) = {}
            /\ Did(r, "parse") /\ NormalizedLen(r) >= 200 =>
                   status[r] # 400 /\ (pc[r] = "insert" \/ Did(r, "insert"))
            /\ \A d \in DocsOf(r) :
                   /\ NormalizedLen(r) >= 200
                   /\ d.content_text = normalizeText(reply[r])

\* 202 characters extracted, 199 left when the five newlines became two
C19_Witness ==
    \E r \in Reqs :
        /\ Done(r) /\ route[r] = "upload" /\ status[r] = 400 /\ Did(r, "parse")
        /\ TextLen(reply[r]) >= 200 /\ NormalizedLen(r) = 199

\* the type a document is listed under
ListedType(d) == IF d.type = Null THEN "other" ELSE d.type

\* the positions in docs of the documents of the type t
Matching(t) == {i \in 1..Len(docs) : ListedType(docs[i]) = t}

\* the k-th smallest element of the set S of numbers
Nth(S, k) == CHOOSE i \in S : Cardinality({j \in S : j <= i}) = k

LedgerOf(r) == {row \in ledger : row.id = r}

ClientErrors == {400, 401, 402, 404}

\* C21: a request of any of the four routes answered 400, 401, 402 or 404 has
\* changed nothing: it lowered no balance (no consume_credits call of its own
\* that succeeded, no profile update), wrote no ledger row and stored no
\* document; and the step that answers so leaves the balance, the ledger and
\* the documents as they are.
C21_ClientErrorFrame ==
    [][\A r \in Reqs :
          pc[r] # "done" /\ pc'[r] = "done" /\ status'[r] \in ClientErrors =>
              /\ credits' = credits /\ ledger' = ledger /\ documents' = documents
              /\ delta'[r] = 0 /\ creditRes'[r].kind # "ok"
              /\ route'[r] = "tailor" => ~Did(r, "credit")
              /\ ~Did(r, "ledger") /\ LedgerOf(r) = {}
              /\ DocsOf(r) = {}
              /\ respKeys'[r] = {"error"}]_vars

\* a tailoring request whose insert failed, answered 400, next to a request
\* that was charged
C21_Witness ==
    \E r, q \in Reqs :
        /\ Done(r) /\ route[r] = "tailor" /\ status[r] = 400
        /\ Did(r, "insert") /\ readb[r] = 1
        /\ q # r /\ LedgerOf(q) # {} /\ credits = 0

\* C22: in the cover-letter and resume-generation routes, once the request's
\* consume_credits call has succeeded, no later step of the request changes
\* the balance or the ledger; when a later step fails (the completion call
\* fails or returns empty content, the insert fails) the response is 500 with
\* an error body, that step stores no document and the request has stored
\* none, and the ledger still holds the request's one row of -1.
C22_NoRefund ==
    [][\A r \in Reqs :
          /\ route[r] \in {"cover", "generate"} /\ creditRes[r].kind = "ok"
          /\ pc[r] # "done" /\ pc'[r] # pc[r]
          => /\ credits' = credits /\ ledger' = ledger
             /\ \A row \in LedgerOf(r) : row.delta = -1
             /\ Cardinality(LedgerOf(r)) = 1
             /\ pc'[r] = "done" /\ failure'[r] # {} =>
                    /\ status'[r] = 500 /\ respKeys'[r] = {"error"}
                    /\ failure'[r] \in {{"completion"}, {"insert"}}
                    /\ documents' = documents /\ DocsOf(r) = {}]_vars

\* the one credit is gone, the completion returned white space only, and the
\* request was answered 500
C22_Witness ==
    \E r \in Reqs :
        /\ Done(r) /\ route[r] = "generate" /\ status[r] = 500
        /\ creditRes[r].kind = "ok" /\ failure[r] = {"completion"}
        /\ credits = 0 /\ delta[r] = 1 /\ Cardinality(ledger) = 1
        /\ documents = {}

\* the balance has been changed by resume-tailoring requests only: every
\* charge of another route leaves a ledger row with its own reason
TailorOnly == \A row \in ledger : row.reason = "tailor_resume"

\* C23: with resume-tailoring requests only, a request all of whose steps
\* succeeded has written as many ledger rows with the reason tailor_resume as
\* it has lowered the balance by, so that the rows add up to the total
\* decrease; and a ledger row is written only after a profile update of the
\* same request that returned no error.
C23_LedgerMatchesDecrease ==
    \A r \in Reqs :
        route[r] = "tailor" =>
            /\ Done(r) /\ status[r] = 200 /\ failure[r] = {} /\ TailorOnly =>
                   Cardinality(LedgerOf(r)) = delta[r]
            /\ LedgerOf(r) # {} =>
                   /\ Did(r, "credit") /\ "credit" \notin failure[r]
                   /\ \A row \in LedgerOf(r) : row.reason = "tailor_resume"

\* the type each route gives the rows it stores
FixedType(rt) ==
    CASE rt = "cover" -> "cover_letter"
      [] rt = "tailor" -> "tailored_resume"
      [] rt = "generate" -> "resume"
      [] rt = "upload" -> "resume"
      [] OTHER -> ""

\* C24: a document row stored by a request of any route has as user_id the
\* user the request's bearer token resolved to by getUser, whatever user id
\* the body carries, and has the type of its route: cover_letter,
\* tailored_resume, or resume for the generation and upload routes.
C24_RowOwnerAndType ==
    /\ \A d \in documents :
           d.user_id = "alice" /\ d.type \in {"cover_letter", "tailored_resume", "resume"}
    /\ \A r \in Reqs :
           route[r] # "none" =>
               \A d \in DocsOf(r) :
                   /\ Did(r, "getUser") /\ "getUser" \notin failure[r]
                   /\ header[r] = BearerPrefix \o TokenA
                   /\ d.user_id = userId[r]
                   /\ d.user_id # body[r].user_id
                   /\ d.type = FixedType(route[r])

\* an upload whose form names another user, stored under the user of the token
C24_Witness ==
    \E r \in Reqs :
        /\ Done(r) /\ route[r] = "upload" /\ status[r] = 200
        /\ body[r].user_id = "bob"
        /\ \E d \in DocsOf(r) : d.user_id = "alice" /\ d.type = "resume"

\* C25: in the cover-letter, resume-generation and resume-tailoring routes a
\* completion whose content is empty or white space only ends the request
\* with 500 and an error body; no insert is issued and no document stored; in
\* the tailoring route the request has not written the balance or the ledger.
\* A document is stored only after a completion with other content.
C25_EmptyCompletion ==
    \A r \in Reqs :
        route[r] \in Charging =>
            /\ Did(r, "completion") /\ (\A i \in 1..Len(reply[r]) : reply[r][i][1] # "ch") =>
                   /\ Done(r) /\ status[r] = 500 /\ respKeys[r] = {"error"}
                   /\ ~Did(r, "insert") /\ DocsOf(r) = {}
                   /\ route[r] = "tailor" =>
                          /\ delta[r] = 0 /\ ~Did(r, "credit") /\ LedgerOf(r) = {}
            /\ DocsOf(r) # {} => \E i \in 1..Len(reply[r]) : reply[r][i][1] = "ch"

\* two spaces came back to a tailoring request that had read a balance of 1
C25_Witness ==
    \E r \in Reqs :
        /\ Done(r) /\ route[r] = "tailor" /\ status[r] = 500
        /\ reply[r] = <<Spaces(2)>> /\ readb[r] = 1 /\ credits = 1

\* the positions in docs of the documents whose id is not the given one
Kept(id) == {i \in 1..Len(docs) : docs[i].id # id}

\* C26: a deleteDoc call changes neither the list nor the selection before
\* its delete returns, nor when the user cancels, nor when the delete returns
\* an error; when the delete returns no error the list loses the documents
\* with the deleted id and keeps the others in their order, and a selection
\* of the deleted document becomes empty; apart from a load, nothing else
\* takes a document off the list.
C26_DeleteDoc ==
    [][/\ \A k \in Dels :
            /\ dpc'[k] # dpc[k] /\ dpc'[k] \in {"delete", "cancelled", "failed"} =>
                   docs' = docs /\ selectedId' = selectedId
            /\ dpc'[k] # dpc[k] /\ dpc'[k] = "removed" =>
                   /\ dpc[k] = "delete"
                   /\ Len(docs') = Cardinality(Kept(did[k]))
                   /\ \A n \in 1..Len(docs') : docs'[n] = docs[Nth(Kept(did[k]), n)]
                   /\ selectedId = did[k] => selectedId' = Null
                   /\ selectedId' \in {selectedId, Null}
       /\ docs' # docs /\ lpc' = lpc =>
              \E k \in Dels : dpc[k] = "delete" /\ dpc'[k] = "removed"]_vars

\* the selected one of two listed documents was deleted: one is left and
\* nothing is selected
C26_Witness ==
    /\ \E k \in Dels : dpc[k] = "removed"
    /\ Len(docs) = 1 /\ selectedId = Null /\ Cardinality(documents) = 1

\* C27: the document the viewer shows is none or a document of the loaded
\* list, the one with the selected id; when no loaded document has the
\* selected id the viewer shows none.
C27_ViewerShowsLoaded ==
    /\ selectedDoc = NoDoc \/
           /\ \E i \in 1..Len(docs) : docs[i] = selectedDoc
           /\ selectedDoc.id = selectedId
    /\ (\A i \in 1..Len(docs) : docs[i].id # selectedId) => selectedDoc = NoDoc

\* a document was selected, then another user's list was loaded: the id is
\* still selected, its row is still stored, and the viewer shows nothing
C27_Witness ==
    /\ selectedId # Null /\ selectedDoc = NoDoc /\ Len(docs) > 0
    /\ \E row \in documents : row.id = selectedId

\* C28: in each of the six client forms the loading flag is false whenever
\* the submit handler is not running: every submit attempt that has ended,
\* by a failed validation, by an error or a throw, or by success, has left
\* it false, and it is true only while the handler waits for a call.
C28_LoadingCleared ==
    form \in Forms =>
        /\ fpc = "idle" => floading = FALSE
        /\ floading = TRUE => fpc \in {"getSession", "fetch", "getUser", "insert",
                                         "signUp", "signIn"}
        /\ fmsg # Null => fpc = "idle"

\* the cover-letter form submitted without a job: it had set the flag before
\* the check and has reset it
C28_Witness ==
    /\ form = "cover" /\ fields = "blank" /\ fmsg = "validation"
    /\ fpc = "idle" /\ floading = FALSE

\* C29: on the login page the location changes only to /dashboard and only
\* when signInWithPassword, or signUp, returns a session and no error; a
\* signUp that returns no session sets the mode to login, shows the
\* confirmation message and does not navigate; an error of either call sets
\* the message and leaves the mode and the location as they are.
C29_LoginNavigation ==
    [][form = "login" =>
          /\ path' # path =>
                 /\ path = "/login" /\ path' = "/dashboard"
                 /\ fpc \in {"signUp", "signIn"} /\ fresult' = "session"
                 /\ fmsg' = Null /\ mode' = mode
          /\ fpc = "signUp" /\ fresult' = "nosession" =>
                 /\ mode' = "login" /\ path' = path
                 /\ fmsg' = "confirm" /\ fpc' = "idle"
          /\ fpc \in {"signUp", "signIn"} /\ fresult' = "error" =>
                 /\ fmsg' = "error" /\ mode' = mode /\ path' = path
                 /\ fpc' = "idle"]_vars

\* a sign-up without a session: still on the login page, now in login mode
C29_Witness ==
    /\ form = "login" /\ path = "/login" /\ mode = "login"
    /\ fresult = "nosession" /\ fmsg = "confirm" /\ fpc = "idle"

====
